---------------------------- MODULE Spec2Model ----------------------------
(***************************************************************************)
(* BusinessLayer (src/BusinessLayer.js): the department update workflow    *)
(* (validateDepartmentUpdate, updateDepartment) run by concurrent callers  *)
(* against a shared department store behind the data-access port, and the  *)
(* start-time rule (validateStartTime).                                    *)
(*                                                                         *)
(* A caller suspends only at the awaits on the port (getDepartment,        *)
(* getAllDepartment, updateDepartment); everything between two awaits runs *)
(* to completion, so each action is one port response together with the    *)
(* synchronous code that follows it.                                       *)
(*                                                                         *)
(* JavaScript values: an absent or falsy field of a patch is "" for a      *)
(* string and 0 for an id (both falsy in JavaScript).                      *)
(***************************************************************************)
EXTENDS Integers, Sequences, FiniteSets, TLC

VARIABLES
    store,              \* the persisted departments, by dept_id
    store0,             \* history: the store after construction
    pc,                 \* per caller: the await it is suspended at
    deptData,           \* per caller: the patch passed to updateDepartment
    errors,             \* per caller: validateDepartmentUpdate's errors array
    existingDept,       \* per caller: the handle fetched by getDepartment
    validationResult,   \* per caller: what validateDepartmentUpdate produced
    thrown,             \* per caller: message of the error updateDepartment threw
    deptResponse,       \* history, per caller: how getDepartment answered
    allResponse,        \* history, per caller: getAllDepartment's call and answer
    faultMessage,       \* history, per caller: message of the lookup fault caught
    storeAtCall,        \* history, per caller: the store when the call started
    updateInvoked,      \* history, per caller: dataLayer.updateDepartment was called
    raced,              \* history: a write committed while another validated call awaited its write
    calls,              \* number of updateDepartment calls started
    startTime,          \* validateStartTime: the argument
    currentDate,        \* validateStartTime: the clock reading (new Date())
    startOutcome        \* validateStartTime: "none", "ok" or the thrown message

timeVars == <<startTime, currentDate, startOutcome>>
vars == <<store, store0, pc, deptData, errors, existingDept, validationResult,
          thrown, deptResponse, allResponse, faultMessage, storeAtCall,
          updateInvoked, raced, calls, startTime, currentDate, startOutcome>>

---------------------------------------------------------------------------
(* Bounds and input sets *)

\* updateDepartment calls started by the single caller of SpecSeq
MaxCalls == 3

\* updateDepartment calls started by the concurrent callers of Spec
MaxRacingCalls == 3

Procs == {"c1", "c2"}

\* One caller that awaits each call before it starts the next.
SoloCaller == {"c1"}

DeptIds == {1, 2, 3}

CompanyOf(id) == IF id = 3 THEN "globex" ELSE "acme"

PatchCompanies == {"", "acme", "globex"}
PatchIds == {0} \cup DeptIds
PatchNos == {"", "d10", "d30"}
PatchNames == {"", "Sales"}
PatchLocations == {"", "Rome"}

Patches ==
    [company : PatchCompanies, dept_id : PatchIds, dept_no : PatchNos,
     dept_name : PatchNames, location : PatchLocations]

\* The patches of the concurrent callers: complete keys, dept_no set or not.
RacingPatches ==
    [company : {"acme", "globex"}, dept_id : DeptIds, dept_no : PatchNos,
     dept_name : {""}, location : {""}]

NoPatch == [company |-> "", dept_id |-> 0, dept_no |-> "", dept_name |-> "", location |-> ""]

FaultMessages == {"connection lost"}

---------------------------------------------------------------------------
(* Messages *)

MsgRequired == "Department ID and company name are required"
MsgNotFound == "Department not found"
MsgNotUnique == "Department number must be unique across all companies"
MsgValidationError(m) == "Validation error: " \o m

RECURSIVE Join(_, _)
Join(arr, sep) ==
    IF Len(arr) = 0 THEN ""
    ELSE IF Len(arr) = 1 THEN arr[1]
    ELSE arr[1] \o sep \o Join(Tail(arr), sep)

MsgValidationFailed(errs) == "Validation failed: " \o Join(errs, ", ")

---------------------------------------------------------------------------
(* The data-access port *)

NoDept == [id |-> 0, company |-> "", dept_no |-> "", dept_name |-> "", location |-> ""]

Handle(id) ==
    [id |-> id, company |-> CompanyOf(id), dept_no |-> store[id].dept_no,
     dept_name |-> store[id].dept_name, location |-> store[id].location]

Absent == [kind |-> "absent", dept |-> NoDept, list |-> <<>>, message |-> ""]
Found(id) == [kind |-> "dept", dept |-> Handle(id), list |-> <<>>, message |-> ""]
Listed(l) == [kind |-> "list", dept |-> NoDept, list |-> l, message |-> ""]
Fault(m) == [kind |-> "fault", dept |-> NoDept, list |-> <<>>, message |-> m]

Faults == {Fault(m) : m \in FaultMessages}

RECURSIVE HandlesOf(_, _)
HandlesOf(company, n) ==
    IF n = 0 THEN <<>>
    ELSE IF n \in DeptIds /\ CompanyOf(n) = company
         THEN Append(HandlesOf(company, n - 1), Handle(n))
         ELSE HandlesOf(company, n - 1)

LastId == CHOOSE n \in DeptIds : \A m \in DeptIds : m <= n

\* getDepartment(company, deptId): the stored record, absent, or a fault.  With a
\* key field missing the port's answer is not determined by the store.
GetDepartmentResponses(company, id) ==
    Faults \cup
    IF company = "" \/ id = 0
    THEN {Absent} \cup {Found(k) : k \in DeptIds}
    ELSE IF id \in DeptIds /\ CompanyOf(id) = company THEN {Found(id)} ELSE {Absent}

\* getAllDepartment(company): the company's departments, or a fault.
GetAllDepartmentResponses(company) ==
    Faults \cup
    IF company = ""
    THEN {Listed(<<>>)} \cup {Listed(HandlesOf(c, LastId)) : c \in {"acme", "globex"}}
    ELSE {Listed(HandlesOf(company, LastId))}

\* updateDepartment(department): persists the handle's fields under its id.
Persist(dept) ==
    [store EXCEPT ![dept.id] =
        [dept_no |-> dept.dept_no, dept_name |-> dept.dept_name, location |-> dept.location]]

---------------------------------------------------------------------------
(* validateDepartmentUpdate *)

NoResult == [kind |-> "none", valid |-> FALSE, errors |-> <<>>, message |-> ""]
Returned(valid, errs) == [kind |-> "return", valid |-> valid, errors |-> errs, message |-> ""]
Raised(m) == [kind |-> "raise", valid |-> FALSE, errors |-> <<>>, message |-> m]

RequiredBothMissing(d) == d.dept_id = 0 /\ d.company = ""

RequiredFieldsMissing(d) == d.dept_id = 0 \/ d.company = ""

RequiredErrors(d) == IF RequiredFieldsMissing(d) THEN <<MsgRequired>> ELSE <<>>

NotFoundResultAlone(errs) == Returned(FALSE, <<MsgNotFound>>)

NotFoundResult(errs) == Returned(FALSE, Append(errs, MsgNotFound))

DeptNoSame(d, existing) == d.dept_no # "" /\ d.dept_no = existing.dept_no

DeptNoChanges(d, existing) == d.dept_no # "" /\ d.dept_no # existing.dept_no

IsDeptNoUniqueSameId(d, allDepartments) ==
    ~ \E i \in 1..Len(allDepartments) :
        /\ allDepartments[i].dept_no = d.dept_no
        /\ allDepartments[i].id = d.dept_id

IsDeptNoUnique(d, allDepartments) ==
    ~ \E i \in 1..Len(allDepartments) :
        /\ allDepartments[i].dept_no = d.dept_no
        /\ allDepartments[i].id # d.dept_id

UniquenessErrorsIgnored(d, errs, allDepartments) == errs

UniquenessErrors(d, errs, allDepartments) ==
    IF IsDeptNoUnique(d, allDepartments) THEN errs ELSE Append(errs, MsgNotUnique)

FinalResult(errs) == Returned(Len(errs) = 0, errs)

CatchBlockRethrow(errs, message) == Raised(message)

CatchBlock(errs, message) == Returned(FALSE, Append(errs, MsgValidationError(message)))

---------------------------------------------------------------------------
(* updateDepartment *)

ApplySettersAlways(d, existing) ==
    [existing EXCEPT
        !.dept_name = d.dept_name, !.dept_no = d.dept_no, !.location = d.location]

ApplySetters(d, existing) ==
    [existing EXCEPT
        !.dept_name = IF d.dept_name # "" THEN d.dept_name ELSE @,
        !.dept_no = IF d.dept_no # "" THEN d.dept_no ELSE @,
        !.location = IF d.location # "" THEN d.location ELSE @]

MayUpdateIgnoringValid(result) == result.kind = "return"

MayUpdate(result) == result.kind = "return" /\ result.valid

\* The code after `await this.validateDepartmentUpdate(deptData)`: throw on an
\* invalid result, otherwise apply the setters and call the data layer.
AfterValidation(p, result, existing) ==
    /\ validationResult' = [validationResult EXCEPT ![p] = result]
    /\ IF MayUpdate(result)
       THEN /\ existingDept' = [existingDept EXCEPT ![p] = ApplySetters(deptData[p], existing)]
            /\ updateInvoked' = [updateInvoked EXCEPT ![p] = TRUE]
            /\ pc' = [pc EXCEPT ![p] = "updateDepartment"]
            /\ UNCHANGED thrown
       ELSE /\ existingDept' = [existingDept EXCEPT ![p] = existing]
            /\ thrown' = [thrown EXCEPT ![p] =
                    IF result.kind = "raise" THEN result.message
                    ELSE MsgValidationFailed(result.errors)]
            /\ pc' = [pc EXCEPT ![p] = "rejected"]
            /\ UNCHANGED updateInvoked

---------------------------------------------------------------------------
(* Actions of the department workflow *)

\* updateDepartment(d) is called: validateDepartmentUpdate runs to its first await.
Call(p, d) ==
    /\ pc[p] = "idle"
    /\ calls' = calls + 1
    /\ deptData' = [deptData EXCEPT ![p] = d]
    /\ errors' = [errors EXCEPT ![p] = RequiredErrors(d)]
    /\ pc' = [pc EXCEPT ![p] = "getDepartment"]
    /\ storeAtCall' = [storeAtCall EXCEPT ![p] = store]
    /\ UNCHANGED <<store, store0, existingDept, validationResult, thrown,
                   deptResponse, allResponse, faultMessage, updateInvoked, raced>>
    /\ UNCHANGED timeVars

GetDepartmentReturn(p) ==
    /\ pc[p] = "getDepartment"
    /\ \E r \in GetDepartmentResponses(deptData[p].company, deptData[p].dept_id) :
        /\ deptResponse' = [deptResponse EXCEPT ![p] = r.kind]
        /\ faultMessage' = [faultMessage EXCEPT ![p] = r.message]
        /\ IF r.kind = "dept" /\ DeptNoChanges(deptData[p], r.dept)
           THEN /\ existingDept' = [existingDept EXCEPT ![p] = r.dept]
                /\ allResponse' = [allResponse EXCEPT ![p] = "pending"]
                /\ pc' = [pc EXCEPT ![p] = "getAllDepartment"]
                /\ UNCHANGED <<validationResult, thrown, updateInvoked>>
           ELSE /\ AfterValidation(p,
                       IF r.kind = "fault" THEN CatchBlock(errors[p], r.message)
                       ELSE IF r.kind = "absent" THEN NotFoundResult(errors[p])
                       ELSE FinalResult(errors[p]),
                       r.dept)
                /\ UNCHANGED allResponse
    /\ UNCHANGED <<store, store0, deptData, errors, storeAtCall, raced, calls>>
    /\ UNCHANGED timeVars

GetAllDepartmentReturn(p) ==
    /\ pc[p] = "getAllDepartment"
    /\ \E r \in GetAllDepartmentResponses(deptData[p].company) :
        /\ allResponse' = [allResponse EXCEPT ![p] = r.kind]
        /\ faultMessage' = [faultMessage EXCEPT ![p] = r.message]
        /\ AfterValidation(p,
               IF r.kind = "fault" THEN CatchBlock(errors[p], r.message)
               ELSE FinalResult(UniquenessErrors(deptData[p], errors[p], r.list)),
               existingDept[p])
    /\ UNCHANGED <<store, store0, deptData, errors, deptResponse, storeAtCall, raced, calls>>
    /\ UNCHANGED timeVars

UpdateDepartmentReturn(p) ==
    /\ pc[p] = "updateDepartment"
    /\ \E ok \in BOOLEAN :
        IF ok
        THEN /\ store' = Persist(existingDept[p])
             /\ raced' = (raced \/ \E q \in Procs \ {p} : pc[q] = "updateDepartment")
             /\ pc' = [pc EXCEPT ![p] = "resolved"]
             /\ UNCHANGED thrown
        ELSE /\ \E m \in FaultMessages : thrown' = [thrown EXCEPT ![p] = m]
             /\ pc' = [pc EXCEPT ![p] = "rejected"]
             /\ UNCHANGED <<store, raced>>
    /\ UNCHANGED <<store0, deptData, errors, existingDept, validationResult,
                   deptResponse, allResponse, faultMessage, storeAtCall,
                   updateInvoked, calls>>
    /\ UNCHANGED timeVars

\* The caller takes the outcome; the call's locals are gone.
Settle(p) ==
    /\ pc[p] \in {"resolved", "rejected"}
    /\ pc' = [pc EXCEPT ![p] = "idle"]
    /\ deptData' = [deptData EXCEPT ![p] = NoPatch]
    /\ errors' = [errors EXCEPT ![p] = <<>>]
    /\ existingDept' = [existingDept EXCEPT ![p] = NoDept]
    /\ validationResult' = [validationResult EXCEPT ![p] = NoResult]
    /\ thrown' = [thrown EXCEPT ![p] = ""]
    /\ deptResponse' = [deptResponse EXCEPT ![p] = "none"]
    /\ allResponse' = [allResponse EXCEPT ![p] = "none"]
    /\ faultMessage' = [faultMessage EXCEPT ![p] = ""]
    /\ storeAtCall' = [storeAtCall EXCEPT ![p] = store0]
    /\ updateInvoked' = [updateInvoked EXCEPT ![p] = FALSE]
    /\ UNCHANGED <<store, store0, raced, calls>>
    /\ UNCHANGED timeVars

---------------------------------------------------------------------------
(* validateStartTime *)

\* A "YYYY-MM-DD HH:MM:SS" argument is its calendar fields, day 0 being a Monday;
\* a Date is the number of minutes since day 0, 00:00 local time, NaN if unparsable.

MaxDay == 8

OpeningHour == 8
ClosingHour == 18

NaN == -1

StartTimes ==
    [valid : {TRUE}, day : 0..MaxDay, hour : {7, 8, 12, 18, 19}, minute : {0, 1, 59}]
    \cup {[valid |-> FALSE, day |-> 0, hour |-> 0, minute |-> 0]}

ClockReadings ==
    [valid : {TRUE}, day : {1, MaxDay - 1, MaxDay}, hour : {12, 19}, minute : {0}]

NoTime == [valid |-> FALSE, day |-> 0, hour |-> 0, minute |-> 0]

MsgInvalidStart == "Invalid start time format."
MsgWeekend == "Start time cannot be on weekend."
MsgHours == "Start time must be between 08:00 and 18:00."
MsgWeek == "Start time must be between current date and previous Monday."

ParseDate(t) ==
    IF t.valid THEN t.day * 1440 + t.hour * 60 + t.minute ELSE NaN

\* Date.getDay(): 0 is Sunday, 1 is Monday.
GetDay(date) == ((date \div 1440) + 1) % 7

GetHours(date) == (date % 1440) \div 60

RECURSIVE WalkBackToMonday(_)
WalkBackToMonday(date) ==
    IF GetDay(date) = 1 THEN date ELSE WalkBackToMonday(date - 1440)

PrevMonday(now) ==
    LET monday == WalkBackToMonday(now)
    IN  monday - (monday % 1440)

OutsideHours(startHour) == startHour < OpeningHour \/ startHour > ClosingHour

StartTimeOutcome(t, now) ==
    LET startDate == ParseDate(t)
    IN  IF startDate = NaN THEN MsgInvalidStart
        ELSE IF GetDay(startDate) = 0 \/ GetDay(startDate) = 6 THEN MsgWeekend
        ELSE IF OutsideHours(GetHours(startDate)) THEN MsgHours
        ELSE IF startDate < PrevMonday(now) \/ startDate > now THEN MsgWeek
        ELSE "ok"

ValidateStartTime(t, clock) ==
    /\ startTime' = t
    /\ currentDate' = ParseDate(clock)
    /\ startOutcome' = StartTimeOutcome(t, ParseDate(clock))
    /\ UNCHANGED <<store, store0, pc, deptData, errors, existingDept, validationResult,
                   thrown, deptResponse, allResponse, faultMessage, storeAtCall,
                   updateInvoked, raced, calls>>

---------------------------------------------------------------------------
(* Initial states *)

DistinctWithinCompany(s) ==
    \A a, b \in DeptIds :
        (a # b /\ CompanyOf(a) = CompanyOf(b)) => s[a].dept_no # s[b].dept_no

DistinctAcrossCompanies(s) ==
    \A a, b \in DeptIds : a # b => s[a].dept_no # s[b].dept_no

InitialStore ==
    [id \in DeptIds |->
        [dept_no |-> IF id = 1 THEN "d10" ELSE IF id = 2 THEN "d20" ELSE "d30",
         dept_name |-> "Ops", location |-> "Oslo"]]

TimeIdle ==
    /\ startTime = NoTime
    /\ currentDate = 0
    /\ startOutcome = "none"

Init ==
    /\ store = InitialStore
    /\ store0 = store
    /\ pc = [p \in Procs |-> "idle"]
    /\ deptData = [p \in Procs |-> NoPatch]
    /\ errors = [p \in Procs |-> <<>>]
    /\ existingDept = [p \in Procs |-> NoDept]
    /\ validationResult = [p \in Procs |-> NoResult]
    /\ thrown = [p \in Procs |-> ""]
    /\ deptResponse = [p \in Procs |-> "none"]
    /\ allResponse = [p \in Procs |-> "none"]
    /\ faultMessage = [p \in Procs |-> ""]
    /\ storeAtCall = [p \in Procs |-> store]
    /\ updateInvoked = [p \in Procs |-> FALSE]
    /\ raced = FALSE
    /\ calls = 0
    /\ TimeIdle

Next ==
    \E p \in Procs :
        \/ \E d \in RacingPatches : calls < MaxRacingCalls /\ Call(p, d)
        \/ GetDepartmentReturn(p)
        \/ GetAllDepartmentReturn(p)
        \/ UpdateDepartmentReturn(p)
        \/ Settle(p)

Spec == Init /\ [][Next]_vars

NextSeq ==
    \E p \in SoloCaller :
        \/ \E d \in Patches : calls < MaxCalls /\ Call(p, d)
        \/ GetDepartmentReturn(p)
        \/ GetAllDepartmentReturn(p)
        \/ UpdateDepartmentReturn(p)
        \/ Settle(p)

SpecSeq == Init /\ [][NextSeq]_vars

NextTime == \E t \in StartTimes, clock \in ClockReadings : ValidateStartTime(t, clock)

SpecTime == Init /\ [][NextTime]_vars

---------------------------------------------------------------------------
(* Properties *)

Finished(p) == validationResult[p].kind # "none"

Includes(errs, msg) == \E i \in 1..Len(errs) : errs[i] = msg

KeyStored(d) == d.dept_id \in DeptIds /\ CompanyOf(d.dept_id) = d.company

\* C1: validateDepartmentUpdate never raises: whatever the port answers it ends
\* with a result structure, and a lookup fault is an entry of errors with
\* valid = FALSE.
C1_NeverRaises ==
    \A p \in Procs :
        /\ validationResult[p].kind \in {"none", "return"}
        /\ pc[p] \in {"updateDepartment", "resolved", "rejected"}
               => validationResult[p].kind = "return"
        /\ (Finished(p) /\ (deptResponse[p] = "fault" \/ allResponse[p] = "fault"))
               => /\ ~ validationResult[p].valid
                  /\ Includes(validationResult[p].errors,
                              "Validation error: " \o faultMessage[p])

C1_Witness ==
    \E p \in Procs :
        /\ allResponse[p] = "fault"
        /\ faultMessage[p] = "connection lost"
        /\ validationResult[p].kind = "return"

\* C2 (as stated): when getDepartment finds no matching department the result is
\* valid = FALSE with errors exactly <<"Department not found">>, and
\* getAllDepartment is never called.
C2_ExactlyNotFound ==
    \A p \in Procs :
        (Finished(p) /\ deptResponse[p] = "absent")
            => /\ ~ validationResult[p].valid
               /\ validationResult[p].errors = <<"Department not found">>
               /\ allResponse[p] = "none"

\* C2 (amended): when getDepartment finds no matching department the result is
\* valid = FALSE, getAllDepartment is never called, and errors is
\* <<"Department not found">> when dept_id and company are both given, and the
\* required-fields message followed by "Department not found" otherwise.
C2_NotFoundLast ==
    \A p \in Procs :
        (Finished(p) /\ deptResponse[p] = "absent")
            => /\ validationResult[p].kind = "return"
               /\ ~ validationResult[p].valid
               /\ allResponse[p] = "none"
               /\ validationResult[p].errors =
                    IF deptData[p].dept_id = 0 \/ deptData[p].company = ""
                    THEN <<"Department ID and company name are required",
                           "Department not found">>
                    ELSE <<"Department not found">>

C2_Witness ==
    \E p \in Procs :
        /\ Finished(p)
        /\ deptResponse[p] = "absent"
        /\ deptData[p].dept_id = 0
        /\ Len(validationResult[p].errors) = 2

\* C3: starting from a store whose dept_no are all distinct, no two stored
\* departments ever share a dept_no, whatever their companies.
C3_UniqueAcrossCompanies ==
    DistinctAcrossCompanies(store0) => DistinctAcrossCompanies(store)

\* C4: a resolved updateDepartment whose patch sets only location leaves
\* dept_name and dept_no of the persisted record as they were before the call,
\* sets its location, and changes no other record.
C4_LocationOnly ==
    \A p \in Procs :
        (/\ pc[p] = "resolved"
         /\ deptData[p].dept_name = ""
         /\ deptData[p].dept_no = ""
         /\ deptData[p].location # "")
            => /\ store[deptData[p].dept_id].dept_name
                    = storeAtCall[p][deptData[p].dept_id].dept_name
               /\ store[deptData[p].dept_id].dept_no
                    = storeAtCall[p][deptData[p].dept_id].dept_no
               /\ store[deptData[p].dept_id].location = deptData[p].location
               /\ \A k \in DeptIds \ {deptData[p].dept_id} : store[k] = storeAtCall[p][k]

C4_Witness ==
    \E p \in Procs :
        /\ pc[p] = "resolved"
        /\ deptData[p].dept_name = ""
        /\ deptData[p].dept_no = ""
        /\ deptData[p].location = "Rome"
        /\ storeAtCall[p][deptData[p].dept_id].location = "Oslo"
        /\ storeAtCall[p][deptData[p].dept_id].dept_name = "Sales"
        /\ store[deptData[p].dept_id].location = "Rome"

\* C5: the data layer's updateDepartment is invoked only after a valid result;
\* after an invalid one the call is rejected with "Validation failed: " and the
\* errors joined by ", ", no setter has been applied and the store is as it was.
C5_UpdateOnlyWhenValid ==
    \A p \in Procs :
        /\ updateInvoked[p]
               => validationResult[p].kind = "return" /\ validationResult[p].valid
        /\ (validationResult[p].kind = "return" /\ ~ validationResult[p].valid)
               => /\ pc[p] = "rejected"
                  /\ ~ updateInvoked[p]
                  /\ Len(validationResult[p].errors) \in {1, 2}
                  /\ Len(validationResult[p].errors) = 1
                         => thrown[p] = "Validation failed: "
                                            \o validationResult[p].errors[1]
                  /\ Len(validationResult[p].errors) = 2
                         => thrown[p] = "Validation failed: "
                                            \o validationResult[p].errors[1] \o ", "
                                            \o validationResult[p].errors[2]
                  /\ store = storeAtCall[p]
                  /\ existingDept[p] = NoDept
                         \/ existingDept[p] = Handle(existingDept[p].id)

C5_Witness ==
    \E p \in Procs :
        /\ pc[p] = "rejected"
        /\ deptData[p].location = "Rome"
        /\ existingDept[p] # NoDept
        /\ thrown[p] = "Validation failed: Department ID and company name are required, Department number must be unique across all companies"

\* C6: a patch of a stored department that supplies a dept_no other than the
\* stored one, while another department of that company has that dept_no, is
\* answered (both lookups answering) with valid = FALSE and the uniqueness message.
C6_DuplicateRejected ==
    \A p \in Procs :
        (/\ Finished(p)
         /\ KeyStored(deptData[p])
         /\ deptResponse[p] = "dept"
         /\ allResponse[p] \in {"none", "list"}
         /\ deptData[p].dept_no # ""
         /\ deptData[p].dept_no # storeAtCall[p][deptData[p].dept_id].dept_no
         /\ \E k \in DeptIds \ {deptData[p].dept_id} :
                /\ CompanyOf(k) = deptData[p].company
                /\ storeAtCall[p][k].dept_no = deptData[p].dept_no)
            => /\ validationResult[p].kind = "return"
               /\ ~ validationResult[p].valid
               /\ Includes(validationResult[p].errors,
                           "Department number must be unique across all companies")

C6_Witness ==
    \E p \in Procs :
        /\ Finished(p)
        /\ KeyStored(deptData[p])
        /\ allResponse[p] = "list"
        /\ deptData[p].dept_no = "d30"
        /\ storeAtCall[p][deptData[p].dept_id].dept_no = "d20"
        /\ \E k \in DeptIds \ {deptData[p].dept_id} :
                CompanyOf(k) = deptData[p].company /\ storeAtCall[p][k].dept_no = "d30"
        /\ validationResult[p].errors
               = <<"Department number must be unique across all companies">>

\* C7: a patch missing dept_id or company is answered with valid = FALSE and the
\* required-fields message, whether the port answers absent, a department or a
\* fault.
C7_RequiredFields ==
    \A p \in Procs :
        (Finished(p) /\ (deptData[p].dept_id = 0 \/ deptData[p].company = ""))
            => /\ validationResult[p].kind = "return"
               /\ ~ validationResult[p].valid
               /\ Includes(validationResult[p].errors,
                           "Department ID and company name are required")

C7_Witness ==
    \E p \in Procs :
        /\ Finished(p)
        /\ deptData[p].company = ""
        /\ deptData[p].dept_id # 0
        /\ deptResponse[p] = "dept"
        /\ allResponse[p] = "list"
        /\ Len(validationResult[p].errors) = 1

\* C8: on a weekday inside the current week the hour-window check passes at
\* exactly 08:00 and 18:00 and fails at 07:59 and 18:01.
C8_HourWindowEdges ==
    (/\ startOutcome # "none"
     /\ startTime.valid
     /\ GetDay(ParseDate(startTime)) \in 1..5
     /\ ParseDate(startTime) >= PrevMonday(currentDate)
     /\ ParseDate(startTime) <= currentDate)
        => /\ (startTime.hour = 8 /\ startTime.minute = 0) => startOutcome # MsgHours
           /\ (startTime.hour = 18 /\ startTime.minute = 0) => startOutcome # MsgHours
           /\ (startTime.hour = 7 /\ startTime.minute = 59) => startOutcome = MsgHours
           /\ (startTime.hour = 18 /\ startTime.minute = 1) => startOutcome = MsgHours

\* C9: two departments of one company come to share a dept_no only when a write
\* commits while another call that has passed validation still awaits its own
\* write; the state in which two such calls have both committed is reachable.
C9_DuplicateOnlyByRace ==
    ~ DistinctWithinCompany(store) => raced

C9_Witness ==
    \E p, q \in Procs :
        /\ p # q
        /\ pc[p] = "resolved" /\ pc[q] = "resolved"
        /\ raced
        /\ deptData[p].company = deptData[q].company
        /\ deptData[p].dept_id # deptData[q].dept_id
        /\ deptData[p].dept_no = deptData[q].dept_no
        /\ deptData[p].dept_no # ""
        /\ storeAtCall[p] = store0 /\ storeAtCall[q] = store0
        /\ store[deptData[p].dept_id].dept_no = deptData[p].dept_no
        /\ store[deptData[q].dept_id].dept_no = deptData[p].dept_no
        /\ ~ DistinctWithinCompany(store)

\* C10: when the calls run one at a time, dept_no stays distinct among the
\* departments of each company, after successful and failed calls alike.
C10_DistinctWithinCompany ==
    DistinctWithinCompany(store0) => DistinctWithinCompany(store)

C10_Witness ==
    \E p \in Procs :
        /\ pc[p] = "rejected"
        /\ Includes(validationResult[p].errors,
                    "Department number must be unique across all companies")
        /\ \E k \in DeptIds : store[k].dept_no # store0[k].dept_no
        /\ DistinctWithinCompany(store)

=============================================================================
